---- MODULE Spec2Model ----
(***************************************************************************)
(* State-machine model of src/server.js: the live-polling server.  The     *)
(* program state is the three module-level variables activePoll,           *)
(* pollResults and pollVotesByStudent; the operations are the POST         *)
(* /api/polls handler, the socket 'connection' handler and the per-socket  *)
(* 'submitAnswer' and 'disconnect' handlers.  Node runs every handler to   *)
(* completion on one thread, so each handler is one action.                *)
(***************************************************************************)
EXTENDS Integers, Sequences, FiniteSets, TLC

VARIABLES
    activePoll,          \* server.js:34  the active poll record, or null
    pollResults,         \* server.js:35  object: option id -> vote count
    pollVotesByStudent,  \* server.js:36  object: poll id -> object: name -> true
    now,                 \* the latest reading of Date.now() (server.js:49)
    connected,           \* the sockets currently connected to io
    last,                \* the inbound event handled last: its kind, the HTTP
                         \* status answered, and the options array and the
                         \* durationSeconds of the request, or the socket
    outbox,              \* what the last handler emitted, in order
    superseded,          \* history: the ids of the polls that were replaced
    counted,             \* history: the <<poll id, name>> pairs of the votes counted
    elapsed,             \* time: the active poll's durationSeconds have passed
                         \* since it was created
    dropped,             \* history: the students whose submission for the active
                         \* poll was dropped for its option id
    submitted,           \* history: what the submission just handled was, seen
                         \* from the state it arrived in
    votedHere            \* history: the students with a counted vote on the
                         \* active poll

vars == <<activePoll, pollResults, pollVotesByStudent, now, connected,
          last, outbox, superseded, counted, elapsed, dropped,
          submitted, votedHere>>

state == <<activePoll, pollResults, pollVotesByStudent>>

-----------------------------------------------------------------------------
(* Bounds of the model *)

MaxClock == 1

MaxOptions == 2

-----------------------------------------------------------------------------
(* JavaScript values *)

null == [null |-> TRUE]

\* The property names every object literal {} inherits from Object.prototype:
\* obj[name] is a truthy value (a function or the prototype) for each of them.
ObjectPrototypeKeys ==
    {"constructor", "toString", "valueOf", "hasOwnProperty", "isPrototypeOf",
     "propertyIsEnumerable", "toLocaleString", "__proto__"}

EmptyObject == <<>>

\* obj[key] read as a condition: an own property holding true, or an inherited one.
Truthy(obj, key) ==
    \/ key \in DOMAIN obj /\ obj[key] = TRUE
    \/ key \in ObjectPrototypeKeys

\* obj[key] = value on an object: adds or overwrites the own property key.
Put(obj, key, value) ==
    [k \in (DOMAIN obj) \cup {key} |-> IF k = key THEN value ELSE obj[k]]

RECURSIVE SumValues(_)
\* Object.values(results).reduce((sum, count) => sum + count, 0)
SumValues(results) ==
    IF DOMAIN results = {} THEN 0
    ELSE LET k == CHOOSE x \in DOMAIN results : TRUE
         IN  results[k] + SumValues([x \in (DOMAIN results) \ {k} |-> results[x]])

-----------------------------------------------------------------------------
(* parseInt(durationSeconds, 10) *)

Digits == <<"0", "1", "2", "3", "4", "5", "6", "7", "8", "9">>

IsDigit(c) == \E i \in 1..10 : Digits[i] = c

DigitVal(c) == (CHOOSE i \in 1..10 : Digits[i] = c) - 1

RECURSIVE NatToChars(_)
NatToChars(n) ==
    IF n < 10 THEN <<Digits[n + 1]>>
    ELSE Append(NatToChars(n \div 10), Digits[(n % 10) + 1])

\* String(x): the string parseInt converts its argument to.
JsToString(x) ==
    CASE x.t = "undefined" -> <<"u", "n", "d", "e", "f", "i", "n", "e", "d">>
      [] x.t = "null"      -> <<"n", "u", "l", "l">>
      [] x.t = "number"    -> IF x.n < 0 THEN <<"-">> \o NatToChars(-x.n)
                              ELSE NatToChars(x.n)
      [] x.t = "string"    -> x.s

RECURSIVE SkipWhite(_)
SkipWhite(s) ==
    IF s # <<>> /\ Head(s) = " " THEN SkipWhite(Tail(s)) ELSE s

RECURSIVE ParseDigits(_, _, _)
\* The longest prefix of decimal digits; NaN when there is none.
ParseDigits(s, acc, seen) ==
    IF s # <<>> /\ IsDigit(Head(s))
    THEN ParseDigits(Tail(s), acc * 10 + DigitVal(Head(s)), TRUE)
    ELSE [nan |-> ~seen, v |-> acc]

parseInt(x) ==
    LET s    == SkipWhite(JsToString(x))
        neg  == s # <<>> /\ Head(s) = "-"
        body == IF s # <<>> /\ Head(s) \in {"-", "+"} THEN Tail(s) ELSE s
        r    == ParseDigits(body, 0, FALSE)
    IN  [nan |-> r.nan, v |-> IF neg THEN -r.v ELSE r.v]

DefaultDuration == 60

MinDuration == 5

\* A slip: the test is <= 5, so a duration of exactly 5 is replaced too.
ParsedDuration_OffByOne(durationSeconds) ==
    LET parsedDurationSeconds == parseInt(durationSeconds)
    IN  IF parsedDurationSeconds.nan \/ parsedDurationSeconds.v <= MinDuration
        THEN DefaultDuration
        ELSE parsedDurationSeconds.v

\* server.js:42-46
ParsedDuration(durationSeconds) ==
    LET parsedDurationSeconds == parseInt(durationSeconds)
    IN  IF parsedDurationSeconds.nan \/ parsedDurationSeconds.v < MinDuration
        THEN DefaultDuration
        ELSE parsedDurationSeconds.v

-----------------------------------------------------------------------------
(* Inputs *)

Undefined == [t |-> "undefined", n |-> 0, s |-> <<>>]
Num(n) == [t |-> "number", n |-> n, s |-> <<>>]
Str(s) == [t |-> "string", n |-> 0, s |-> s]

DurationInputs ==
    {Undefined, [t |-> "null", n |-> 0, s |-> <<>>],
     Num(4), Num(-30), Num(86400), Str(<<"a", "b", "c">>),
     Str(<<"5", ".", "9">>), Str(<<" ", "3", "0", "p", "x">>)}

OptionTexts == <<"Red", "Blue", "Green", "Pink", "Grey">>

\* The options field of the request body: an array of strings, or absent.
OptionInputs ==
    {[isArray |-> FALSE, items |-> <<>>]} \cup
    {[isArray |-> TRUE, items |-> SubSeq(OptionTexts, 1, n)] : n \in 0..MaxOptions}

Sockets == {"s1", "s2"}

StudentNames == {"Alice", "Bob", "constructor"}

\* The readings of Date.now(), in increasing order: equal readings fall in the
\* same millisecond, a greater one is any later time.
ClockReadings == 0..MaxClock

\* Date.now().toString()
PollIdOf(t) == ToString(t)

\* The pollId of a submission: the id of a poll created at some clock reading
\* (one that was created, or one that never was).
PollIds == {PollIdOf(t) : t \in ClockReadings}

\* The optionId of a submission; MaxOptions is an option id of no poll.
OptionIds == 0..MaxOptions

\* The request bodies of POST /api/polls: every options value with a plain
\* question and duration, every duration with a one-option poll, and the
\* empty question with the empty options array.
RequestBodies ==
    {[question |-> "Color?", options |-> o, durationSeconds |-> Str(<<"3", "0">>)] :
        o \in OptionInputs}
    \cup
    {[question |-> "Color?",
      options |-> [isArray |-> TRUE, items |-> SubSeq(OptionTexts, 1, 1)],
      durationSeconds |-> d] : d \in DurationInputs}
    \cup
    {[question |-> "",
      options |-> [isArray |-> TRUE, items |-> <<>>],
      durationSeconds |-> Undefined]}

-----------------------------------------------------------------------------
(* calculatePercentages, server.js:107-117 *)

\* A percentage (votes / total) * 100, kept as the exact ratio num / den.
Percentage(votesForOption, totalVotes) ==
    [num |-> votesForOption * 100, den |-> totalVotes]

Zero == [num |-> 0, den |-> 1]

calculatePercentages(results, currentActivePoll) ==
    LET totalVotes == SumValues(results)
    IN  IF currentActivePoll = null THEN <<>>
        ELSE IF totalVotes = 0
        THEN [i \in 1..Len(currentActivePoll.options) |->
                [optionId |-> currentActivePoll.options[i].id, percentage |-> Zero]]
        ELSE [i \in 1..Len(currentActivePoll.options) |->
                LET opt == currentActivePoll.options[i]
                    votesForOption ==
                        IF opt.id \in DOMAIN results THEN results[opt.id] ELSE 0
                IN  [optionId |-> opt.id,
                     percentage |-> Percentage(votesForOption, totalVotes)]]

-----------------------------------------------------------------------------
(* Emitting *)

\* A slip: io.emit where socket.emit was meant.
SocketEmit_Broadcast(socket, event, payload) ==
    [event |-> event, to |-> connected \cup {socket}, payload |-> payload]

\* socket.emit(event, payload): delivered to that socket only.
SocketEmit(socket, event, payload) ==
    [event |-> event, to |-> {socket}, payload |-> payload]

\* io.emit(event, payload): delivered to every connected socket.
IoEmit(event, payload) ==
    [event |-> event, to |-> connected, payload |-> payload]

-----------------------------------------------------------------------------
Init ==
    /\ activePoll = null
    /\ pollResults = EmptyObject
    /\ pollVotesByStudent = EmptyObject
    /\ now = 0
    /\ connected = {}
    /\ last = [op |-> "start", status |-> 0]
    /\ outbox = <<>>
    /\ superseded = {}
    /\ counted = {}
    /\ elapsed = FALSE
    /\ dropped = {}
    /\ submitted = [case |-> "none"]
    /\ votedHere = {}

\* Date.now(): the clock never runs backwards, and two readings may fall in
\* the same millisecond.
DateNow(t) == t \in ClockReadings /\ t >= now

\* server.js:51  options.map((opt, index) => ({ id: index, text: opt }))
MapOptions(items) ==
    [i \in 1..Len(items) |-> [id |-> i - 1, text |-> items[i]]]

\* server.js:48-53
NewPoll(t, question, options, durationSeconds) ==
    [id |-> PollIdOf(t),
     question |-> question,
     options |-> MapOptions(options.items),
     durationSeconds |-> ParsedDuration(durationSeconds)]

RECURSIVE ReduceOptions(_, _)
\* server.js:54  options.reduce((acc, opt) => ({ ...acc, [opt.id]: 0 }), {})
ReduceOptions(options, acc) ==
    IF options = <<>> THEN acc
    ELSE ReduceOptions(Tail(options), Put(acc, Head(options).id, 0))

\* A slip: the zero-fill is merged into the previous poll's tally.
FreshResults_KeepOld(poll) == ReduceOptions(poll.options, pollResults)

\* server.js:54
FreshResults(poll) == ReduceOptions(poll.options, EmptyObject)

\* A slip: pollVotesByStudent[id] = pollVotesByStudent[id] || {}
FreshLedger_KeepExisting(votes, poll) ==
    IF poll.id \in DOMAIN votes THEN votes ELSE Put(votes, poll.id, EmptyObject)

\* server.js:55  pollVotesByStudent[activePoll.id] = {}
FreshLedger(votes, poll) == Put(votes, poll.id, EmptyObject)

\* POST /api/polls, server.js:39-61
CreatePoll(t, question, options, durationSeconds) ==
    /\ DateNow(t)
    /\ IF options.isArray
       THEN LET poll == NewPoll(t, question, options, durationSeconds)
            IN  /\ now' = t
                /\ activePoll' = poll
                /\ pollResults' = FreshResults(poll)
                /\ pollVotesByStudent' = FreshLedger(pollVotesByStudent, poll)
                /\ outbox' = <<IoEmit("newPoll", poll)>>
                /\ last' = [op |-> "createPoll", status |-> 201,
                            items |-> options.items,
                            durationSeconds |-> durationSeconds]
       ELSE \* options.map throws a TypeError before activePoll is assigned
            /\ UNCHANGED <<activePoll, pollResults, pollVotesByStudent, now>>
            /\ outbox' = <<>>
            /\ last' = [op |-> "createPoll", status |-> 500]
    /\ UNCHANGED connected

\* io.on('connection'), server.js:63-70
Connect(socket) ==
    /\ socket \notin connected
    /\ connected' = connected \cup {socket}
    /\ outbox' =
         IF activePoll # null
         THEN <<SocketEmit(socket, "newPoll", activePoll),
                SocketEmit(socket, "updateResults",
                           calculatePercentages(pollResults, activePoll))>>
         ELSE <<>>
    /\ last' = [op |-> "connection", status |-> 0, socket |-> socket]
    /\ UNCHANGED <<activePoll, pollResults, pollVotesByStudent, now>>

\* A slip: the poll is cleared when the last client leaves.
Disconnect_ClearsPoll(socket) ==
    /\ socket \in connected
    /\ connected' = connected \ {socket}
    /\ activePoll' = IF connected' = {} THEN null ELSE activePoll
    /\ outbox' = <<>>
    /\ last' = [op |-> "disconnect", status |-> 0]
    /\ UNCHANGED <<pollResults, pollVotesByStudent, now>>

\* socket.on('disconnect'), server.js:102-104
Disconnect(socket) ==
    /\ socket \in connected
    /\ connected' = connected \ {socket}
    /\ outbox' = <<>>
    /\ last' = [op |-> "disconnect", status |-> 0]
    /\ UNCHANGED <<activePoll, pollResults, pollVotesByStudent, now>>

\* server.js:76
PollMatches(pollId) == activePoll # null /\ activePoll.id = pollId

\* A slip: the duplicate check is missing.
AlreadyVoted_Never(pollId, studentName) == FALSE

\* A slip: the duplicate check looks through the ledger entries of all polls.
AlreadyVoted_AnyPoll(pollId, studentName) ==
    \E q \in DOMAIN pollVotesByStudent :
       Truthy(pollVotesByStudent[q], studentName)

\* server.js:77
AlreadyVoted(pollId, studentName) ==
    /\ pollId \in DOMAIN pollVotesByStudent
    /\ Truthy(pollVotesByStudent[pollId], studentName)

\* A slip: the option is never validated.
isValidOption_NoCheck(optionId) == TRUE

\* server.js:83
isValidOption(optionId) ==
    \E i \in 1..Len(activePoll.options) : activePoll.options[i].id = optionId

\* server.js:85-88
CountVote(results, optionId) ==
    LET r == IF optionId \notin DOMAIN results THEN Put(results, optionId, 0)
             ELSE results
    IN  [r EXCEPT ![optionId] = @ + 1]

\* A slip: the vote is counted and the student is not recorded.
RecordVote_Forget(votes, pollId, studentName) == votes

\* server.js:89
RecordVote(votes, pollId, studentName) ==
    [votes EXCEPT ![pollId] = Put(@, studentName, TRUE)]

\* server.js:79
AlreadyVotedReply(socket, pollId) ==
    SocketEmit(socket, "alreadyVoted", [pollId |-> pollId])

\* server.js:98
PollEndedReply(socket, pollId) ==
    SocketEmit(socket, "pollEnded", [pollId |-> pollId])

\* server.js:92
ResultsBroadcast(results, poll) ==
    IoEmit("updateResults", calculatePercentages(results, poll))

\* A slip: the student is recorded before the option is validated.
SubmitAnswer_RecordsFirst(socket, pollId, optionId, studentName) ==
    /\ socket \in connected
    /\ last' = [op |-> "submitAnswer", status |-> 0]
    /\ IF PollMatches(pollId)
       THEN IF AlreadyVoted(pollId, studentName)
            THEN /\ outbox' = <<AlreadyVotedReply(socket, pollId)>>
                 /\ UNCHANGED <<pollResults, pollVotesByStudent>>
            ELSE /\ pollVotesByStudent' =
                        RecordVote(pollVotesByStudent, pollId, studentName)
                 /\ IF isValidOption(optionId)
                    THEN /\ pollResults' = CountVote(pollResults, optionId)
                         /\ outbox' =
                               <<ResultsBroadcast(pollResults', activePoll)>>
                    ELSE /\ outbox' = <<>>
                         /\ UNCHANGED pollResults
       ELSE /\ outbox' = <<PollEndedReply(socket, pollId)>>
            /\ UNCHANGED <<pollResults, pollVotesByStudent>>
    /\ UNCHANGED <<activePoll, now, connected>>

\* A slip: the option is validated before the duplicate check.
SubmitAnswer_OptionFirst(socket, pollId, optionId, studentName) ==
    /\ socket \in connected
    /\ last' = [op |-> "submitAnswer", status |-> 0]
    /\ IF PollMatches(pollId)
       THEN IF ~isValidOption(optionId)
            THEN /\ outbox' = <<>>
                 /\ UNCHANGED <<pollResults, pollVotesByStudent>>
            ELSE IF AlreadyVoted(pollId, studentName)
            THEN /\ outbox' = <<AlreadyVotedReply(socket, pollId)>>
                 /\ UNCHANGED <<pollResults, pollVotesByStudent>>
            ELSE /\ pollResults' = CountVote(pollResults, optionId)
                 /\ pollVotesByStudent' =
                        RecordVote(pollVotesByStudent, pollId, studentName)
                 /\ outbox' = <<ResultsBroadcast(pollResults', activePoll)>>
       ELSE /\ outbox' = <<PollEndedReply(socket, pollId)>>
            /\ UNCHANGED <<pollResults, pollVotesByStudent>>
    /\ UNCHANGED <<activePoll, now, connected>>

\* socket.on('submitAnswer'), server.js:72-100
SubmitAnswer(socket, pollId, optionId, studentName) ==
    /\ socket \in connected
    /\ last' = [op |-> "submitAnswer", status |-> 0]
    /\ IF PollMatches(pollId)
       THEN IF AlreadyVoted(pollId, studentName)
            THEN /\ outbox' = <<AlreadyVotedReply(socket, pollId)>>
                 /\ UNCHANGED <<pollResults, pollVotesByStudent>>
            ELSE IF isValidOption(optionId)
            THEN /\ pollResults' = CountVote(pollResults, optionId)
                 /\ pollVotesByStudent' =
                        RecordVote(pollVotesByStudent, pollId, studentName)
                 /\ outbox' = <<ResultsBroadcast(pollResults', activePoll)>>
            ELSE /\ outbox' = <<>>
                 /\ UNCHANGED <<pollResults, pollVotesByStudent>>
       ELSE /\ outbox' = <<PollEndedReply(socket, pollId)>>
            /\ UNCHANGED <<pollResults, pollVotesByStudent>>
    /\ UNCHANGED <<activePoll, now, connected>>

history == <<superseded, counted>>
submissions == <<dropped, submitted, votedHere>>

\* The program alone: the history and time variables stay as they start.
Next ==
    \/ \E t \in ClockReadings, body \in RequestBodies :
          /\ CreatePoll(t, body.question, body.options, body.durationSeconds)
          /\ UNCHANGED <<history, elapsed, submissions>>
    \/ \E s \in Sockets : Connect(s) /\ UNCHANGED <<history, elapsed, submissions>>
    \/ \E s \in Sockets : Disconnect(s) /\ UNCHANGED <<history, elapsed, submissions>>
    \/ \E s \in Sockets, p \in PollIds, o \in OptionIds, n \in StudentNames :
          /\ SubmitAnswer(s, p, o, n)
          /\ UNCHANGED <<history, elapsed, submissions>>

Spec == Init /\ [][Next]_vars

\* The program with its history recorded: a poll that is replaced has its id
\* added to superseded, and a submission that increments a tally entry has its
\* <<pollId, studentName>> added to counted.
NextHistory ==
    \/ \E t \in ClockReadings, body \in RequestBodies :
          /\ CreatePoll(t, body.question, body.options, body.durationSeconds)
          /\ superseded' = IF last'.status = 201 /\ activePoll # null
                            THEN superseded \cup {activePoll.id}
                            ELSE superseded
          /\ UNCHANGED <<counted, elapsed, submissions>>
    \/ \E s \in Sockets : Connect(s) /\ UNCHANGED <<history, elapsed, submissions>>
    \/ \E s \in Sockets : Disconnect(s) /\ UNCHANGED <<history, elapsed, submissions>>
    \/ \E s \in Sockets, p \in PollIds, o \in OptionIds, n \in StudentNames :
          /\ SubmitAnswer(s, p, o, n)
          /\ counted' = IF pollResults' # pollResults
                         THEN counted \cup {<<p, n>>}
                         ELSE counted
          /\ UNCHANGED <<superseded, elapsed, submissions>>

SpecHistory == Init /\ [][NextHistory]_vars

\* The request bodies that differ in their options only.
OptionBodies == {body \in RequestBodies : body.durationSeconds = Str(<<"3", "0">>)}

\* The durationSeconds of the active poll run out.  The server sets no timer
\* (no setTimeout or setInterval anywhere in server.js), so no handler runs.
DurationElapses ==
    /\ activePoll # null
    /\ ~elapsed
    /\ elapsed' = TRUE
    /\ UNCHANGED <<activePoll, pollResults, pollVotesByStudent, now, connected,
                   last, outbox, history, submissions>>

\* The program with time passing: a poll created after the duration of the
\* previous one has run out reads a later clock value.
NextTime ==
    \/ \E t \in ClockReadings, body \in OptionBodies :
          /\ elapsed => t > now
          /\ CreatePoll(t, body.question, body.options, body.durationSeconds)
          /\ elapsed' = IF last'.status = 201 THEN FALSE ELSE elapsed
          /\ UNCHANGED <<history, submissions>>
    \/ \E s \in Sockets : Connect(s) /\ UNCHANGED <<history, elapsed, submissions>>
    \/ \E s \in Sockets : Disconnect(s) /\ UNCHANGED <<history, elapsed, submissions>>
    \/ \E s \in Sockets, p \in PollIds, o \in OptionIds, n \in StudentNames :
          /\ SubmitAnswer(s, p, o, n)
          /\ UNCHANGED <<history, elapsed, submissions>>
    \/ DurationElapses

SpecTime == Init /\ [][NextTime]_vars

\* What a submission is, seen from the state it arrives in: for another poll
\* than the active one (and whether its student is recorded in the ledger entry
\* of its pollId); for the active poll, by a student recorded in its ledger
\* entry, with an option id the poll does not have; for the active poll, with
\* one of its option ids, by a student who was dropped on this poll or is
\* recorded in the ledger entry of another poll (with the tally entry as it
\* stood and whether the student has a counted vote on this poll); or anything
\* else.
\* The students recorded in the ledger entry of a poll other than pollId.
RecordedElsewhere(pollId) ==
    UNION {DOMAIN pollVotesByStudent[q] : q \in DOMAIN pollVotesByStudent \ {pollId}}

Classify(socket, pollId, optionId, studentName) ==
    IF ~PollMatches(pollId)
    THEN [case |-> "otherPoll", socket |-> socket, pollId |-> pollId,
          recorded |-> /\ pollId \in DOMAIN pollVotesByStudent
                       /\ studentName \in DOMAIN pollVotesByStudent[pollId]]
    ELSE IF \A i \in 1..Len(activePoll.options) :
               activePoll.options[i].id # optionId
    THEN IF studentName \in DOMAIN pollVotesByStudent[pollId]
         THEN [case |-> "recordedInvalidOption",
               socket |-> socket, pollId |-> pollId]
         ELSE [case |-> "other"]
    ELSE IF studentName \in dropped \cup RecordedElsewhere(pollId)
    THEN [case |-> "validOption",
          studentName |-> studentName, optionId |-> optionId,
          tally |-> IF optionId \in DOMAIN pollResults
                    THEN pollResults[optionId] ELSE 0,
          afterDrop |-> studentName \in dropped,
          recordedElsewhere |-> studentName \in RecordedElsewhere(pollId),
          votedHere |-> studentName \in votedHere]
    ELSE [case |-> "other"]

\* The program with its submissions recorded: submitted is the class of the
\* submission just handled; a student whose submission for the active poll
\* gets no answer and no count joins dropped and leaves it when a vote of
\* theirs is counted; a student whose vote is counted joins votedHere; a new
\* poll empties both.
NextSubmissions ==
    \/ \E t \in ClockReadings, body \in OptionBodies :
          /\ CreatePoll(t, body.question, body.options, body.durationSeconds)
          /\ dropped' = IF last'.status = 201 THEN {} ELSE dropped
          /\ votedHere' = IF last'.status = 201 THEN {} ELSE votedHere
          /\ submitted' = [case |-> "none"]
          /\ UNCHANGED <<history, elapsed>>
    \/ \E s \in Sockets :
          /\ Connect(s)
          /\ submitted' = [case |-> "none"]
          /\ UNCHANGED <<history, elapsed, dropped, votedHere>>
    \/ \E s \in Sockets :
          /\ Disconnect(s)
          /\ submitted' = [case |-> "none"]
          /\ UNCHANGED <<history, elapsed, dropped, votedHere>>
    \/ \E s \in Sockets, p \in PollIds, o \in OptionIds, n \in StudentNames :
          /\ SubmitAnswer(s, p, o, n)
          /\ dropped' = IF outbox' = <<>> THEN dropped \cup {n}
                         ELSE IF pollResults' # pollResults THEN dropped \ {n}
                         ELSE dropped
          /\ votedHere' = IF pollResults' # pollResults
                           THEN votedHere \cup {n}
                           ELSE votedHere
          /\ submitted' = Classify(s, p, o, n)
          /\ UNCHANGED <<history, elapsed>>

SpecSubmissions == Init /\ [][NextSubmissions]_vars

-----------------------------------------------------------------------------
(* What the claims speak of *)

\* The student names recorded in the ledger entry of pollId.
Recorded(pollId) ==
    IF pollId \in DOMAIN pollVotesByStudent
    THEN {n \in DOMAIN pollVotesByStudent[pollId] :
             pollVotesByStudent[pollId][n] = TRUE}
    ELSE {}

\* The option ids of the active poll.
ActiveOptionIds ==
    IF activePoll = null THEN {}
    ELSE {activePoll.options[i].id : i \in 1..Len(activePoll.options)}

\* The submission is for the active poll.
ForActivePoll(pollId) == activePoll # null /\ activePoll.id = pollId

\* The step increments a tally entry.
VoteCounted == pollResults' # pollResults

\* The single event the handler emitted, when it emitted exactly one.
OnlyEvent(box, event, to) ==
    Len(box) = 1 /\ box[1].event = event /\ box[1].to = to

-----------------------------------------------------------------------------
\* C1: for every pair (pollId, studentName), at most one submitAnswer carrying
\* that pair increments a tally entry over the whole run: once a vote of the
\* pair has been counted, no later submitAnswer with the same pollId and
\* studentName is counted, whatever its optionId.
C1_AtMostOneCountedVote ==
    [][\A s \in Sockets, p \in PollIds, o \in OptionIds, n \in StudentNames :
          (SubmitAnswer(s, p, o, n) /\ <<p, n>> \in counted) => ~VoteCounted]_vars

\* C2: a submitAnswer for the active poll, by a student name not yet recorded
\* in the ledger entry of pollId, with an option id of the active poll, adds
\* exactly 1 to the tally of optionId, records studentName in the ledger entry
\* of pollId, and leaves the active poll, the other tallies and the ledger
\* entries of the other polls unchanged.
C2_ValidVoteIsCounted ==
    [][\A s \in Sockets, p \in PollIds, o \in OptionIds, n \in StudentNames :
          ( /\ SubmitAnswer(s, p, o, n)
            /\ ForActivePoll(p)
            /\ n \notin Recorded(p)
            /\ o \in ActiveOptionIds )
          =>
          ( /\ DOMAIN pollResults' = DOMAIN pollResults
            /\ pollResults'[o] = pollResults[o] + 1
            /\ \A k \in DOMAIN pollResults \ {o} : pollResults'[k] = pollResults[k]
            /\ n \in Recorded(p)'
            /\ Recorded(p)' = Recorded(p) \cup {n}
            /\ activePoll' = activePoll
            /\ DOMAIN pollVotesByStudent' = DOMAIN pollVotesByStudent
            /\ \A q \in DOMAIN pollVotesByStudent \ {p} :
                  pollVotesByStudent'[q] = pollVotesByStudent[q] )]_vars

\* C3: once a poll has been replaced by a later CreatePoll, every submitAnswer
\* carrying the replaced poll's id is answered with pollEnded to the submitter
\* and changes neither the tally nor any ledger entry.
C3_SupersededPollRejects ==
    [][\A s \in Sockets, p \in PollIds, o \in OptionIds, n \in StudentNames :
          (SubmitAnswer(s, p, o, n) /\ p \in superseded)
          =>
          ( /\ OnlyEvent(outbox', "pollEnded", {s})
            /\ pollResults' = pollResults
            /\ pollVotesByStudent' = pollVotesByStudent )]_vars

\* C4: every rejected submitAnswer (no active poll or another poll's id, a
\* student already recorded, an option id that is no option of the active
\* poll, or any submission answered with pollEnded, alreadyVoted or nothing)
\* leaves the active poll, the tally and the vote ledger as they were.
\* Stated by contraposition: a submitAnswer step that changes any of the three
\* is no rejection.
C4_RejectionChangesNothing ==
    [][(last'.op = "submitAnswer" /\ state' # state)
       =>
       \A s \in Sockets, p \in PollIds, o \in OptionIds, n \in StudentNames :
          SubmitAnswer(s, p, o, n)
          =>
          ~ ( \/ ~ForActivePoll(p)
              \/ n \in Recorded(p)
              \/ o \notin ActiveOptionIds
              \/ outbox' = <<>>
              \/ OnlyEvent(outbox', "pollEnded", {s})
              \/ OnlyEvent(outbox', "alreadyVoted", {s}) )]_vars

\* A rejection of each kind has just happened, with votes in the tally.
C4_Witness ==
    /\ last.op = "submitAnswer"
    /\ activePoll # null
    /\ SumValues(pollResults) > 0
    /\ \E s \in Sockets : OnlyEvent(outbox, "alreadyVoted", {s})

\* C5: whenever a poll is active, the sum of all tally values equals the
\* number of distinct student names recorded in the ledger entry of the
\* active poll's id.
C5_TallySumIsVoterCount ==
    activePoll # null =>
        SumValues(pollResults) = Cardinality(Recorded(activePoll.id))

\* Two students have voted in the active poll, which replaced an earlier one.
C5_Witness ==
    /\ activePoll # null
    /\ Cardinality(Recorded(activePoll.id)) = 2
    /\ \E q \in DOMAIN pollVotesByStudent : q # activePoll.id /\ Recorded(q) # {}

\* C6: every submitAnswer has exactly one of four outcomes: pollEnded to the
\* submitter alone (no active poll, or another poll's id); alreadyVoted to the
\* submitter alone (the student is already in the ledger); updateResults to
\* all connected sockets (the vote was counted); or no event (the option id is
\* no option of the active poll).  updateResults is broadcast if and only if
\* the vote was counted.
C6_ExactlyOneOutcome ==
    [][\A s \in Sockets, p \in PollIds, o \in OptionIds, n \in StudentNames :
          SubmitAnswer(s, p, o, n)
          =>
          \/ /\ OnlyEvent(outbox', "pollEnded", {s})
             /\ ~ForActivePoll(p)
             /\ ~VoteCounted
          \/ /\ OnlyEvent(outbox', "alreadyVoted", {s})
             /\ ForActivePoll(p)
             /\ n \in Recorded(p)
             /\ ~VoteCounted
          \/ /\ OnlyEvent(outbox', "updateResults", connected)
             /\ VoteCounted
          \/ /\ outbox' = <<>>
             /\ ForActivePoll(p)
             /\ o \notin ActiveOptionIds
             /\ ~VoteCounted]_vars

\* C7: right after a CreatePoll with an options array of length N, the active
\* poll is the new poll, its options carry the ids 0..N-1 in input order, the
\* tally has exactly the keys 0..N-1, each 0, and the ledger entry of the new
\* poll's id exists and is empty.
C7_CreatePollResets ==
    (last.op = "createPoll" /\ last.status = 201)
    =>
    LET N == Len(last.items)
    IN  /\ activePoll # null
        /\ activePoll.id = PollIdOf(now)
        /\ Len(activePoll.options) = N
        /\ \A i \in 1..N :
              activePoll.options[i] = [id |-> i - 1, text |-> last.items[i]]
        /\ DOMAIN pollResults = 0..(N - 1)
        /\ \A k \in 0..(N - 1) : pollResults[k] = 0
        /\ activePoll.id \in DOMAIN pollVotesByStudent
        /\ DOMAIN pollVotesByStudent[activePoll.id] = {}

\* A poll of two options has just been created, while the ledger still holds
\* the votes of an earlier poll.
C7_Witness ==
    /\ last.op = "createPoll"
    /\ last.status = 201
    /\ Len(activePoll.options) = 2
    /\ \E q \in DOMAIN pollVotesByStudent : q # activePoll.id /\ Recorded(q) # {}

RECURSIVE TallyOf(_)
\* The votes of the options in seq, added up.
TallyOf(seq) ==
    IF seq = <<>> THEN 0
    ELSE (IF Head(seq).id \in DOMAIN pollResults THEN pollResults[Head(seq).id]
          ELSE 0) + TallyOf(Tail(seq))

\* The percentages of the current tally, one entry per option in option order.
CurrentPercentages ==
    LET total == TallyOf(activePoll.options)
    IN  [i \in 1..Len(activePoll.options) |->
            [optionId |-> i - 1,
             percentage |->
                 IF total = 0 THEN [num |-> 0, den |-> 1]
                 ELSE [num |-> 100 * pollResults[i - 1], den |-> total]]]

\* C8: a socket that connects while a poll is active receives, and it alone,
\* first newPoll with the active poll and then updateResults with the
\* percentages of the current tally; with no active poll it receives nothing.
C8_JoinGetsPollThenResults ==
    last.op = "connection"
    =>
    IF activePoll # null
    THEN /\ Len(outbox) = 2
         /\ outbox[1] = [event |-> "newPoll", to |-> {last.socket},
                          payload |-> activePoll]
         /\ outbox[2] = [event |-> "updateResults", to |-> {last.socket},
                          payload |-> CurrentPercentages]
    ELSE outbox = <<>>

\* A socket has just joined a poll that has votes, with another socket connected.
C8_Witness ==
    /\ last.op = "connection"
    /\ Len(outbox) = 2
    /\ Cardinality(connected) = 2
    /\ activePoll # null
    /\ SumValues(pollResults) = 2

\* C9: in every reachable state every key of the tally is an option id of the
\* active poll, that is one of 0..N-1 for its N options; with no active poll
\* the tally is empty.
C9_TallyKeysAreOptionIds ==
    /\ DOMAIN pollResults \subseteq ActiveOptionIds
    /\ activePoll # null =>
          DOMAIN pollResults \subseteq 0..(Len(activePoll.options) - 1)
    /\ activePoll = null => DOMAIN pollResults = {}

\* A one-option poll with a vote is active after an earlier poll had two voters.
C9_Witness ==
    /\ activePoll # null
    /\ Len(activePoll.options) = 1
    /\ pollResults[0] = 1
    /\ \E q \in DOMAIN pollVotesByStudent :
          q # activePoll.id /\ Cardinality(Recorded(q)) = 2

\* C10: every handler is one atomic step, so a vote is counted only into the
\* tally of the poll whose id it carries: a submitAnswer for the active poll's
\* id finds the tally and the ledger entry of that poll only (the keys of the
\* tally are its option ids and the tally adds up to its recorded voters), and
\* no vote carrying the id of a replaced poll is added to the tally.
C10_VoteGoesToItsOwnPoll ==
    [][\A s \in Sockets, p \in PollIds, o \in OptionIds, n \in StudentNames :
          SubmitAnswer(s, p, o, n)
          =>
          /\ ForActivePoll(p) =>
                /\ DOMAIN pollResults = ActiveOptionIds
                /\ SumValues(pollResults) = Cardinality(Recorded(p))
          /\ VoteCounted => (ForActivePoll(p) /\ p \notin superseded)]_vars

\* The clock reading whose id is pollId.
ReadingOf(pollId) == CHOOSE t \in ClockReadings : PollIdOf(t) = pollId

\* C11: poll ids are unique and strictly increasing across CreatePoll calls:
\* the id a CreatePoll produces differs from, and is greater than, the id of
\* the poll it replaces and of every poll replaced before, also when two
\* calls read the same clock value.
C11_PollIdsStrictlyIncrease ==
    [][(last'.op = "createPoll" /\ last'.status = 201)
       =>
       \A q \in superseded' :
          /\ activePoll'.id # q
          /\ ReadingOf(activePoll'.id) > ReadingOf(q)]_vars

\* C12: CreatePoll never fails: whatever the request body (options missing or
\* no array, options empty, question empty), the call raises no error, a new
\* active poll is installed and the created poll is answered (status 201).
C12_CreatePollNeverFails ==
    last.op = "createPoll" =>
        /\ last.status = 201
        /\ activePoll # null
        /\ OnlyEvent(outbox, "newPoll", connected)
        /\ outbox[1].payload = activePoll

\* C13: the durationSeconds stored by CreatePoll is 60 when parsing the input
\* as an integer fails (missing, null, non-numeric) or gives less than 5, and
\* is the parsed integer when that is 5 or more, however large.
C13_StoredDuration ==
    (last.op = "createPoll" /\ last.status = 201)
    =>
    LET parsed == parseInt(last.durationSeconds)
    IN  /\ (parsed.nan \/ parsed.v < 5) => activePoll.durationSeconds = 60
        /\ (~parsed.nan /\ parsed.v >= 5) => activePoll.durationSeconds = parsed.v
        /\ last.durationSeconds.t \in {"undefined", "null"}
              => activePoll.durationSeconds = 60

\* A poll has just been created from the input "5.9", which parses to 5.
C13_Witness ==
    /\ last.op = "createPoll"
    /\ last.status = 201
    /\ last.durationSeconds = Str(<<"5", ".", "9">>)
    /\ activePoll.durationSeconds = 5

RECURSIVE SumOfNumerators(_)
\* The numerators of a result sequence, added up.
SumOfNumerators(result) ==
    IF result = <<>> THEN 0
    ELSE Head(result).percentage.num + SumOfNumerators(Tail(result))

\* C14: with a poll active, calculatePercentages gives one entry per option in
\* option order; every percentage is 0 when the tally adds up to 0; otherwise
\* each is count / total * 100 and together they are 100, that is the counts
\* of the poll's options add up to the total used as the divisor.
C14_PercentagesSumTo100 ==
    activePoll # null =>
        LET result == calculatePercentages(pollResults, activePoll)
            total  == SumValues(pollResults)
            N      == Len(activePoll.options)
        IN  /\ Len(result) = N
            /\ \A i \in 1..N : result[i].optionId = activePoll.options[i].id
            /\ total = 0 => \A i \in 1..N : result[i].percentage.num = 0
            /\ total > 0 =>
                  /\ \A i \in 1..N :
                        /\ result[i].percentage.den = total
                        /\ result[i].percentage.num
                              = 100 * pollResults[activePoll.options[i].id]
                  /\ SumOfNumerators(result) = 100 * total

\* Two options with one vote each: 50 and 50.
C14_Witness ==
    /\ activePoll # null
    /\ Len(activePoll.options) = 2
    /\ pollResults[0] = 1
    /\ pollResults[1] = 1
    /\ calculatePercentages(pollResults, activePoll)[1].percentage
          = [num |-> 100, den |-> 2]


\* C15: the server never closes a poll on its own.  Once the durationSeconds
\* of the active poll have run out, the poll is still the active one until a
\* CreatePoll answered 201 replaces it, and a submission for it with one of its
\* option ids by a student not yet recorded in its ledger entry is counted.
C15_NoPollClosesOnItsOwn ==
    [][/\ (activePoll # null /\ activePoll' # activePoll)
          => (last'.op = "createPoll" /\ last'.status = 201)
       /\ (last'.op = "submitAnswer" /\ elapsed)
          => \A s \in connected, p \in PollIds :
                ForActivePoll(p) =>
                   \A o \in ActiveOptionIds, n \in StudentNames \ Recorded(p) :
                      SubmitAnswer(s, p, o, n) => VoteCounted]_vars

\* C16: the active poll, once there is one, is never cleared, and it changes
\* only in a CreatePoll answered 201: submitAnswer, a connection and a
\* disconnect leave it as it is.
C16_ActivePollChangesOnlyByCreatePoll ==
    [][/\ activePoll # null => activePoll' # null
       /\ activePoll' # activePoll
          => (last'.op = "createPoll" /\ last'.status = 201)
       /\ last'.op \in {"submitAnswer", "connection", "disconnect"}
          => activePoll' = activePoll]_vars

C16_Witness ==
    /\ activePoll # null
    /\ last.op = "disconnect"
    /\ connected = {}
    /\ SumValues(pollResults) > 0

\* C17: once a poll has been superseded, its entry of pollVotesByStudent stays
\* in the table with the same students recorded, whatever is done on the polls
\* created after it.
C17_SupersededLedgerIsKept ==
    [][\A q \in superseded' :
          q \in DOMAIN pollVotesByStudent
          => /\ q \in DOMAIN pollVotesByStudent'
             /\ pollVotesByStudent'[q] = pollVotesByStudent[q]]_vars

\* C18: the checks run in the order poll match, duplicate, option validity.
\* A submission for the active poll by a student recorded in its ledger entry,
\* with an optionId that is none of the poll's option ids, is answered
\* alreadyVoted to the submitter; a submission whose pollId is not the active
\* poll's id is answered pollEnded to the submitter, also when its student is
\* recorded in the ledger entry of that pollId.
C18_CheckOrder ==
    /\ submitted.case = "recordedInvalidOption" =>
          /\ OnlyEvent(outbox, "alreadyVoted", {submitted.socket})
          /\ outbox[1].payload = [pollId |-> submitted.pollId]
    /\ submitted.case = "otherPoll" =>
          /\ OnlyEvent(outbox, "pollEnded", {submitted.socket})
          /\ outbox[1].payload = [pollId |-> submitted.pollId]

\* A submission for a replaced poll by a student recorded in that poll's ledger
\* entry has just been handled.
C18_Witness ==
    /\ activePoll # null
    /\ submitted.case = "otherPoll"
    /\ submitted.recorded
    /\ submitted.pollId # activePoll.id


\* C19: a submission for the active poll that is dropped for its option id
\* does not use up the student's vote: the student is not recorded in the
\* poll's ledger entry, and a later submission of theirs for the same active
\* poll with one of its option ids is counted, recorded and broadcast.
C19_DroppedVoteIsNotUsedUp ==
    /\ activePoll # null => dropped \cap Recorded(activePoll.id) = {}
    /\ (submitted.case = "validOption" /\ submitted.afterDrop) =>
          /\ pollResults[submitted.optionId] = submitted.tally + 1
          /\ submitted.studentName \in Recorded(activePoll.id)
          /\ OnlyEvent(outbox, "updateResults", connected)

C19_Witness ==
    /\ submitted.case = "validOption"
    /\ submitted.afterDrop
    /\ ~submitted.recordedElsewhere
    /\ pollResults[submitted.optionId] = submitted.tally + 1

\* C20: the vote history is kept per poll.  A student recorded in the ledger
\* entry of another poll, submitting for the active poll with one of its option
\* ids, is counted when they have no counted vote on the active poll yet, and
\* is answered alreadyVoted and not counted when they have one: exactly one
\* counted vote on each later poll.
C20_OneCountedVotePerPoll ==
    (submitted.case = "validOption" /\ submitted.recordedElsewhere) =>
        IF submitted.votedHere
        THEN /\ pollResults[submitted.optionId] = submitted.tally
             /\ Len(outbox) = 1
             /\ outbox[1].event = "alreadyVoted"
        ELSE /\ pollResults[submitted.optionId] = submitted.tally + 1
             /\ submitted.studentName \in votedHere
             /\ submitted.studentName \in Recorded(activePoll.id)

C20_Witness ==
    /\ submitted.case = "validOption"
    /\ submitted.recordedElsewhere
    /\ ~submitted.votedHere
    /\ ~submitted.afterDrop
    /\ submitted.studentName \in votedHere
    /\ Cardinality(votedHere) = 2
====
